---- MODULE Spec2Model ----
(***************************************************************************)
(* State-machine model of src/main.py (S-PLUS / Gaia astrometric           *)
(* differencing).                                                          *)
(*                                                                         *)
(* Units used for the numeric columns (all integers, exact arithmetic):    *)
(*   RA, DEC, RAJ2000, DEJ2000 : 1e-4 degree                               *)
(*   magnitude                 : 0.1 mag                                   *)
(*   CLASS_STAR                : 0.01                                      *)
(*   FWHM                      : 1e-4 degree                               *)
(*   signal-to-noise, sn_limit : 0.1                                       *)
(*   pmRA, pmDE, abspm         : 1 mas/yr                                  *)
(*   radiff, dediff            : 1e-8 arcsec                               *)
(*   cosine                    : 1e-6                                      *)
(***************************************************************************)
EXTENDS Integers, Sequences, FiniteSets, TLC

\* ------------------------------------------------------------------ bounds
MaxRows == 3
MaxQRows == 2
MaxGaia == 2
MaxPairs == 3
MaxTiles == 2
MaxRuns == 2
MaxNames == 2
MaxProcs == 2

\* --------------------------------------------------------------- constants
\* invalid (non-finite / masked) numeric value
NaN == 999999
\* reference point of the sky patch the model works in: (10.0000, 20.0000) deg
Ra0 == 10 * 10000
Dec0 == 20 * 10000
\* cos(20 deg) * 1e9 and  d cos / d dec  per 1e-4 deg * 1e9  at 20 deg
Cos20E9 == 939692621
DCos20E9 == 597

gaia_dr == "355"
cat_name_preffix == ""
cat_name_suffix == ""

OptionalColumns == {"flags", "clstar", "fwhm", "sn"}

absv(x) == IF x < 0 THEN -x ELSE x

\* np.cos(dec * u.deg), valid for |dec - 20 deg| <= 0.01 deg, in 1e-6
CosE6(dec) == (Cos20E9 - DCos20E9 * (dec - Dec0) + 500) \div 1000

\* NaN-propagating abs() and +
AbsF(x) == IF x = NaN THEN NaN ELSE absv(x)
AddF(x, y) == IF x = NaN \/ y = NaN THEN NaN ELSE x + y

\* boolean-mask indexing  seq[m]
RECURSIVE Compress(_, _)
Compress(seq, m) ==
    IF seq = <<>> THEN <<>>
    ELSE (IF Head(m) THEN <<Head(seq)>> ELSE <<>>) \o Compress(Tail(seq), Tail(m))

\* ------------------------------------------------------------- file system
NoFile == [exists |-> FALSE, rows |-> <<>>]
File(rows) == [exists |-> TRUE, rows |-> rows]

path_to_results(tile) == <<"results/", tile, "_mar-gaiaDR3_diff.csv">>
\* cache path looked up by calculate_astdiff
gaia_cat_path(tile) == <<"gaia_", gaia_dr, "/", tile, ".csv">>
\* cache path written by get_gaia
get_gaia_cat_path(tilename) == <<"gaia_", gaia_dr, "_", tilename, ".csv">>
survey_path(tile) == <<cat_name_preffix, tile, cat_name_suffix>>

\* --------------------------------------------------- matching (lines 286-292)
\* squared on-sky separation of a survey entry and a reference entry,
\* tangent-plane, in (1e-6 deg)^2; coordinates differ by at most 30 units
SepSq(s, g) ==
    LET x == (absv(s.ra - g.ra) * CosE6(g.dec)) \div 10000
        y == absv(s.dec - g.dec) * 100
    IN  x * x + y * y

\* j is an index match_to_catalog_3d may return for survey entry s
Nearest(s, cat, j) == \A k \in 1..Len(cat) : SepSq(s, cat[j]) <= SepSq(s, cat[k])

\* d2d < 5.0 * u.arcsec :   sep * 0.0036 arcsec < 5  <=>  1296 sep^2 < 25e8
SeparationBelow5(s, g) == 81 * SepSq(s, g) < 156250000

\* ------------------------------------------------ quality filter (294-319)
\* the flags test applied even when no flags column is configured
QualitySampleFlagsAlways(r, cols, snl) ==
    /\ r.mag > 140 /\ r.mag < 190
    /\ r.flags = 0
    /\ ("clstar" \in cols => r.clstar > 95)
    /\ ("fwhm" \in cols => r.fwhm * 3600 < 25000)
    /\ ("sn" \in cols => r.sn > snl)

QualitySample(r, cols, snl) ==
    LET s0 == r.mag > 140
        s1 == s0 /\ (r.mag < 190)
        s2 == IF "flags" \notin cols THEN s1 ELSE s1 /\ (r.flags = 0)
        s3 == IF "clstar" \notin cols THEN s2 ELSE s2 /\ (r.clstar > 95)
        s4 == IF "fwhm" \notin cols THEN s3 ELSE s3 /\ (r.fwhm * 3600 < 25000)
        s5 == IF "sn" \notin cols THEN s4 ELSE s4 /\ (r.sn > snl)
    IN  s5

\* ---------------------------------------------------- outlier trim (324-328)
Abspm(g) == AddF(AbsF(g.pmRA), AbsF(g.pmDE))

\* np.ma.masked_invalid(abspm).mask
MaskedInvalid(v) == v = NaN

\* 100 * np.percentile(vals, 95), linear interpolation, vals non-empty
Percentile95x100(vals) ==
    LET s == SortSeq(vals, LAMBDA x, y : x < y)
        n == Len(s)
        h == 95 * (n - 1)
        k == h \div 100
        r == h % 100
    IN  IF r = 0 THEN 100 * s[k + 1]
        ELSE 100 * s[k + 1] + r * (s[k + 2] - s[k + 1])

\* the cut taken inclusive: abspm <= lmt
TrimMaskInclusive(ab, lmt100) ==
    [p \in 1..Len(ab) |-> (ab[p] # NaN) /\ (100 * ab[p] <= lmt100)]

\* (abspm < lmt) & ~mx.mask
TrimMask(ab, lmt100) ==
    [p \in 1..Len(ab) |-> (~MaskedInvalid(ab[p])) /\ (100 * ab[p] < lmt100)]

\* ----------------------------------------------------- differences (329-342)
Dediff(s, g) == 36 * (s.dec - g.dec) * 1000000
\* the cosine taken of the survey declination
RadiffSurveyDec(s, g) == 36 * (s.ra - g.ra) * CosE6(s.dec)
Radiff(s, g) == 36 * (s.ra - g.ra) * CosE6(g.dec)

ResultRow(s, g) ==
    [RA |-> s.ra, DEC |-> s.dec, RAJ2000 |-> g.ra, DEJ2000 |-> g.dec,
     radiff |-> Radiff(s, g), dediff |-> Dediff(s, g), abspm |-> Abspm(g)]


\* =========================================================== program state
VARIABLES
    filetype,       \* self.filetype
    survey_format,  \* actual format of the survey catalogue files on disk
    columns,        \* optional quality columns that are configured (not None)
    sn_limit,       \* self.sn_limit
    fields,         \* the tile list: what the name `fields` of line 241 holds
                    \* (not a parameter of calculate_astdiff; main sets it, 561)
    field_names,    \* normalised footprint names (get_fields_names)
    files,          \* file system: path -> [exists, rows]
    dirs,           \* directories that exist
    run,            \* number of the current invocation of calculate_astdiff
    pc,             \* position inside calculate_astdiff
    i,              \* index of the loop over fields
    fault,          \* exception that ended the invocation, "" if none
    gaia_data, scat, idx, separation, sample, finalscat, finalgaia, mask,
    queries,        \* history: remote queries issued per tile
    cache_reads,    \* history: reads of the reference cache per tile
    survey_reads,   \* history: reads of the survey catalogue per tile
    writes,         \* history: writes of the result file per tile
    status,         \* history: stages passed by each list entry in this run
    mpc,            \* position inside the __main__ block
    exit_code,      \* process exit status of the main program, -1 while running
    argv,           \* command line: "none", "bad" or "ok"
    tiles_file,     \* the tile-list file of --tiles
    footprint_file, \* the footprint file of --footprint
    footprint,      \* main's footprint table (NAME column)
    main_names,     \* main's field_names
    log,            \* error records logged by the main program
    jobs,           \* worker processes created by the main program
    started,        \* worker processes started by the main program
    calls,          \* invocations of calculate_astdiff made by the main program
    num_procs,      \* the name num_procs of line 571
    b,              \* the list b of line 572
    tiles,          \* the chunks: rows of the array of lines 584-585
    start_method,   \* multiprocessing start method of the platform
    alive,          \* started worker processes that have not exited
    exitcodes,      \* exit status of the worker processes that have exited
    proc_alive,     \* the flag proc_alive of line 601
    main_fault,     \* exception that ended the main program after line 569
    procs           \* concurrent invocations of calculate_astdiff: their state

config == <<filetype, survey_format, columns, sn_limit, fields, field_names>>
locals == <<gaia_data, scat, idx, separation, sample, finalscat, finalgaia, mask>>
history == <<queries, cache_reads, survey_reads, writes>>
fanout == <<jobs, started, calls, num_procs, b, tiles, start_method, alive,
            exitcodes, proc_alive, main_fault>>
mainvars == <<mpc, exit_code, argv, tiles_file, footprint_file, footprint,
              main_names, log, fanout, procs>>
vars == <<config, files, dirs, run, pc, i, fault, locals, history, status, mainvars>>

Tiles == {"t1", "t2"}
Filler == "fakename"
stacked_path == <<"mar-astrometry_results_stacked.csv">>
figure_path == <<"mar-astrometry_results_stacked", ".png">>
\* column labels of the table `fields` read with names=['NAME']  (561-562):
\* what iterating over the table itself yields
FieldsColumns == <<"NAME">>
Paths == UNION {{path_to_results(t), gaia_cat_path(t), get_gaia_cat_path(t),
                 survey_path(t)} : t \in Tiles}
         \cup {stacked_path, figure_path, path_to_results(FieldsColumns[1])}
ResultsDir == "results/"
VizierCacheDir == ".astropy/cache/astroquery/Vizier/"
GaiaDir == "gaia_355"

tile == fields[i]
Stage(s) == [status EXCEPT ![i] = Append(@, s)]
Bump(f, t) == [f EXCEPT ![t] = @ + 1]
\* the exception caught inside the loop, which then goes on
RaiseCaught(e) == /\ fault' = e
                  /\ pc' = "loop"
                  /\ status' = Stage("FAULT")
\* an exception raised while the current entry is processed: nothing in
\* calculate_astdiff catches it (the handlers of 268 and 276 re-raise)
Raise(e) == /\ fault' = e
            /\ pc' = "fault"
            /\ status' = Stage("FAULT")
\* an exception raised after the steps `done` of the current entry
RaiseAfter(done, e) == /\ fault' = e
                       /\ pc' = "fault"
                       /\ status' = [status EXCEPT ![i] = @ \o done \o <<"FAULT">>]

\* the existence check made on the reference-cache path
ResultExistsAtCachePath(t) == files[gaia_cat_path(t)].exists
\* the existence check left out
ResultNeverExists(t) == FALSE
\* os.path.isfile(path_to_results)                                 (line 247)
ResultExists(t) == files[path_to_results(t)].exists
\* os.path.isfile(gaia_cat_path)                                   (line 258)
CacheExists(t) == files[gaia_cat_path(t)].exists
\* every extension taken as readable
FiletypeAlwaysSupported(ft) == TRUE
\* self.filetype == '.fits' / elif self.filetype == '.csv'         (264, 272)
FiletypeSupported(ft) == ft \in {".fits", ".csv"}
\* the selection taken from the quality sample alone
SelectedSampleOnly(sep, smp) == smp
\* separation & sample                                             (321-322)
Selected(sep, smp) == sep /\ smp
\* footprint['RA'][field_names == tile] is not empty               (251-254)
InFootprint(t) == \E k \in 1..Len(field_names) : field_names[k] = t

\* ------------------------------------------------------ calculate_astdiff
\* lines 232-239
Enter ==
    /\ pc = "enter"
    /\ dirs' = dirs \cup {ResultsDir}
    /\ pc' = "loop"
    /\ UNCHANGED <<config, files, run, i, fault, locals, history, status, mainvars>>

\* line 241, list exhausted; line 348
LoopDone ==
    /\ pc = "loop" /\ i > Len(fields)
    /\ pc' = "done"
    /\ UNCHANGED <<config, files, dirs, run, i, fault, locals, history, status, mainvars>>

\* lines 242-243
FillerName ==
    /\ pc = "loop" /\ i <= Len(fields)
    /\ tile = Filler
    /\ status' = Stage("FILLER")
    /\ i' = i + 1
    /\ UNCHANGED <<config, files, dirs, run, pc, fault, locals, history, mainvars>>

\* lines 245-249
SkipExisting ==
    /\ pc = "loop" /\ i <= Len(fields)
    /\ tile # Filler
    /\ ResultExists(tile)
    /\ status' = Stage("SKIPPED")
    /\ i' = i + 1
    /\ UNCHANGED <<config, files, dirs, run, pc, fault, locals, history, mainvars>>

\* lines 245-254
Resolve ==
    /\ pc = "loop" /\ i <= Len(fields)
    /\ tile # Filler
    /\ ~ResultExists(tile)
    /\ IF InFootprint(tile)
       THEN pc' = "gaia" /\ UNCHANGED <<fault, status>>
       ELSE Raise("IndexError")
    /\ UNCHANGED <<config, files, dirs, run, i, locals, history, mainvars>>

\* lines 256-260
ReadCache ==
    /\ pc = "gaia"
    /\ CacheExists(tile)
    /\ gaia_data' = files[gaia_cat_path(tile)].rows
    /\ cache_reads' = Bump(cache_reads, tile)
    /\ status' = Stage("CACHE")
    /\ pc' = "load"
    /\ UNCHANGED <<config, files, dirs, run, i, fault, scat, idx, separation, sample,
                   finalscat, finalgaia, mask, queries, survey_reads, writes, mainvars>>

\* line 262 -> get_gaia, lines 159-181: the query is issued (177); it either
\* fails or returns, and line 181 then uses the undefined name `logger`
get_gaia ==
    /\ pc = "gaia"
    /\ ~CacheExists(tile)
    /\ dirs' = dirs \cup {VizierCacheDir}
    /\ queries' = Bump(queries, tile)
    /\ \E e \in {"QueryError", "NameError"} : RaiseAfter(<<"QUERY">>, e)
    /\ UNCHANGED <<config, files, run, i, locals, cache_reads, survey_reads, writes,
                   mainvars>>

\* lines 264-284
Load ==
    /\ pc = "load"
    /\ IF FiletypeSupported(filetype)
       THEN /\ survey_reads' = Bump(survey_reads, tile)
            /\ IF survey_format = filetype
               THEN /\ scat' = files[survey_path(tile)].rows
                    /\ pc' = "match"
                    /\ status' = Stage("SURVEY")
                    /\ UNCHANGED fault
               ELSE /\ RaiseAfter(<<"SURVEY">>,
                                  IF filetype = ".fits" THEN "OSError"
                                                        ELSE "UnicodeDecodeError")
                    /\ UNCHANGED scat
       ELSE /\ Raise("TypeError")
            /\ UNCHANGED <<scat, survey_reads>>
    /\ UNCHANGED <<config, files, dirs, run, i, gaia_data, idx, separation, sample,
                   finalscat, finalgaia, mask, queries, cache_reads, writes, mainvars>>

\* lines 286-292
Match ==
    /\ pc = "match"
    /\ IF gaia_data = <<>>
       THEN /\ Raise("ValueError")
            /\ UNCHANGED <<idx, separation>>
       ELSE /\ \E m \in [1..Len(scat) -> 1..Len(gaia_data)] :
                 /\ \A p \in 1..Len(scat) : Nearest(scat[p], gaia_data, m[p])
                 /\ idx' = m
                 /\ separation' = [p \in 1..Len(scat) |->
                                     SeparationBelow5(scat[p], gaia_data[m[p]])]
            /\ status' = Stage("MATCHED")
            /\ pc' = "filter"
            /\ UNCHANGED fault
    /\ UNCHANGED <<config, files, dirs, run, i, gaia_data, scat, sample, finalscat,
                   finalgaia, mask, history, mainvars>>

\* lines 294-322
Filter ==
    /\ pc = "filter"
    /\ sample' = [p \in 1..Len(scat) |-> QualitySample(scat[p], columns, sn_limit)]
    /\ LET keep == [p \in 1..Len(scat) |-> Selected(separation[p], sample'[p])]
       IN  /\ finalscat' = Compress(scat, keep)
           /\ finalgaia' = Compress([p \in 1..Len(scat) |-> gaia_data[idx[p]]], keep)
    /\ status' = Stage("FILTERED")
    /\ pc' = "trim"
    /\ UNCHANGED <<config, files, dirs, run, i, fault, gaia_data, scat, idx, separation,
                   mask, history, mainvars>>

\* lines 324-328
Trim ==
    /\ pc = "trim"
    /\ LET ab == [p \in 1..Len(finalgaia) |-> Abspm(finalgaia[p])]
           valid == SelectSeq(ab, LAMBDA v : ~MaskedInvalid(v))
       IN  IF valid = <<>>
           THEN \* np.percentile of an empty array: nan, or IndexError,
                \* depending on the numpy version
                \/ /\ mask' = [p \in 1..Len(ab) |-> FALSE]
                   /\ status' = Stage("OUTLIER-TRIMMED")
                   /\ pc' = "write"
                   /\ UNCHANGED fault
                \/ /\ Raise("IndexError")
                   /\ UNCHANGED mask
           ELSE /\ mask' = TrimMask(ab, Percentile95x100(valid))
                /\ status' = Stage("OUTLIER-TRIMMED")
                /\ pc' = "write"
                /\ UNCHANGED fault
    /\ UNCHANGED <<config, files, dirs, run, i, gaia_data, scat, idx, separation, sample,
                   finalscat, finalgaia, history, mainvars>>

\* lines 329-346
Results ==
    Compress([p \in 1..Len(finalscat) |-> ResultRow(finalscat[p], finalgaia[p])], mask)

Write ==
    /\ pc = "write"
    /\ files' = [files EXCEPT ![path_to_results(tile)] = File(Results)]
    /\ writes' = Bump(writes, tile)
    /\ status' = Stage("WRITTEN")
    /\ i' = i + 1
    /\ pc' = "loop"
    /\ UNCHANGED <<config, dirs, run, fault, locals, queries, cache_reads, survey_reads,
                   mainvars>>

\* calculate_astdiff is invoked again with the same arguments and workdir
Rerun ==
    /\ pc \in {"done", "fault"}
    /\ run < MaxRuns
    /\ run' = run + 1
    /\ pc' = "enter"
    /\ i' = 1
    /\ fault' = ""
    /\ gaia_data' = <<>> /\ scat' = <<>> /\ idx' = <<>> /\ separation' = <<>>
    /\ sample' = <<>> /\ finalscat' = <<>> /\ finalgaia' = <<>> /\ mask' = <<>>
    /\ status' = [k \in 1..Len(fields) |-> <<"PENDING">>]
    /\ UNCHANGED <<config, files, dirs, history, mainvars>>


\* ============================================================ main program
\* str.replace('_', '-') on a name given as a sequence of characters
Replace(n) == [k \in 1..Len(n) |-> IF n[k] = "_" THEN "-" ELSE n[k]]

\* lines 534-545
get_fields_names(fp) == [k \in 1..Len(fp) |-> Replace(fp[k])]

\* the footprint file is never found
FootprintNeverMissing(f) == TRUE
\* ascii.read(path_to_foot) does not raise FileNotFoundError      (525-527)
FootprintFound(f) == f.exists

\* the unconditional exit left out: execution falls through to line 571
Line569Removed == [mpc |-> "fanout", exit_code |-> -1]
\* sys.exit()                                                      (line 569)
Line569 == [mpc |-> "exited", exit_code |-> 0]

\* the process ends: sys.exit(code), or an uncaught exception e (status 1)
Exit(e, code) ==
    /\ fault' = e
    /\ exit_code' = code
    /\ mpc' = "exited"

\* lines 549-555: call_logger, parser, SplusGaiaAst(args)
MainParse ==
    /\ mpc = "start"
    /\ CASE argv = "none" -> Exit("ArgumentTypeError", 1)
         [] argv = "bad" -> Exit("ArgumentError", 2)
         [] OTHER -> mpc' = "tiles" /\ UNCHANGED <<fault, exit_code>>
    /\ UNCHANGED <<config, files, dirs, run, pc, i, locals, history, status, argv,
                   tiles_file, footprint_file, footprint, main_names, log, fanout, procs>>

\* lines 557-562
MainReadTiles ==
    /\ mpc = "tiles"
    /\ IF ~tiles_file.exists
       THEN Exit("AssertionError", 1) /\ UNCHANGED <<fields, status>>
       ELSE IF tiles_file.rows = <<>>
       THEN Exit("EmptyDataError", 1) /\ UNCHANGED <<fields, status>>
       ELSE /\ fields' = tiles_file.rows
            /\ status' = [k \in 1..Len(fields') |-> <<"PENDING">>]
            /\ mpc' = "footprint"
            /\ UNCHANGED <<fault, exit_code>>
    /\ UNCHANGED <<filetype, survey_format, columns, sn_limit, field_names, files, dirs,
                   run, pc, i, locals, history, argv, tiles_file, footprint_file,
                   footprint, main_names, log, fanout, procs>>

\* line 565 -> get_footprint, lines 510-531
get_footprint ==
    /\ mpc = "footprint"
    /\ IF FootprintFound(footprint_file)
       THEN /\ footprint' = footprint_file.rows
            /\ mpc' = "names"
            /\ UNCHANGED <<fault, exit_code, log>>
       ELSE /\ log' = Append(log, "Footprint file not found")
            /\ Exit("", 1)
            /\ UNCHANGED footprint
    /\ UNCHANGED <<config, files, dirs, run, pc, i, locals, history, status, argv,
                   tiles_file, footprint_file, main_names, fanout, procs>>

\* line 567 -> get_fields_names
MainFieldNames ==
    /\ mpc = "names"
    /\ main_names' = get_fields_names(footprint)
    /\ mpc' = "exit"
    /\ UNCHANGED <<config, files, dirs, run, pc, i, fault, locals, history, status,
                   exit_code, argv, tiles_file, footprint_file, footprint, log, fanout, procs>>

\* line 569
MainExit ==
    /\ mpc = "exit"
    /\ mpc' = Line569.mpc
    /\ exit_code' = Line569.exit_code
    /\ UNCHANGED <<config, files, dirs, run, pc, i, fault, locals, history, status,
                   argv, tiles_file, footprint_file, footprint, main_names, log, fanout, procs>>

\* --------------------------------------------- the code after line 569
\* np.unique(b).size                                              (line 574)
num_fields(l) == Cardinality({l[k] : k \in 1..Len(l)})

\* number of 'fakename' entries appended by lines 575-581
Fillers(l, n) ==
    IF num_fields(l) % n > 0
    THEN ((num_fields(l) \div n) + 1) * n - num_fields(l)
    ELSE 0

\* the list b after lines 575-581
Padded(l, n) == l \o [k \in 1..Fillers(l, n) |-> Filler]

\* np.array(b).reshape((num_procs, int(np.array(b).size / num_procs)))
\* raises ValueError unless the sizes agree                    (lines 584-585)
Reshapable(l, n) == n * (Len(l) \div n) = Len(l)
Reshape(l, n) ==
    LET w == Len(l) \div n
    IN  [r \in 1..n |-> SubSeq(l, (r - 1) * w + 1, r * w)]

\* if num_procs == 1:                                             (line 573)
FanOutTaken(n) == n = 1

\* an uncaught exception in the main program after line 569
MainRaise(e) ==
    /\ main_fault' = e
    /\ exit_code' = 1
    /\ mpc' = "exited"

\* lines 571-586
MainChunk ==
    /\ mpc = "fanout"
    /\ IF FanOutTaken(num_procs)
       THEN /\ b' = Padded(fields, num_procs)
            /\ IF Reshapable(b', num_procs)
               THEN /\ tiles' = Reshape(b', num_procs)
                    /\ mpc' = "create"
                    /\ UNCHANGED <<main_fault, exit_code>>
               ELSE /\ MainRaise("ValueError")
                    /\ UNCHANGED tiles
       ELSE /\ b' = fields
            /\ mpc' = "plot"
            /\ UNCHANGED <<tiles, main_fault, exit_code>>
    /\ UNCHANGED <<config, files, dirs, run, pc, i, fault, locals, history, status,
                   argv, tiles_file, footprint_file, footprint, main_names, log,
                   jobs, started, calls, num_procs, start_method, alive, exitcodes,
                   proc_alive, procs>>

\* lines 587-592: one Process per row of tiles
MainCreate ==
    /\ mpc = "create"
    /\ jobs' = Len(tiles)
    /\ mpc' = "start"
    /\ UNCHANGED <<config, files, dirs, run, pc, i, fault, locals, history, status,
                   exit_code, argv, tiles_file, footprint_file, footprint, main_names,
                   log, started, calls, num_procs, b, tiles, start_method, alive,
                   exitcodes, proc_alive, main_fault, procs>>

\* lines 594-601: every job is started; the branch of line 573 is taken with
\* num_procs = 1 only, so there is one worker.  It runs
\* calculate_astdiff(tile, footprint): the parameter footprint is bound to the
\* chunk and the parameter field_names to the footprint table (line 591); the
\* name `fields` of line 241 is the module-level table of line 561 when the
\* child inherits the parent's memory (fork) and is undefined when the child
\* re-imports the module (spawn, forkserver).
MainStart ==
    /\ mpc = "start"
    /\ jobs = 1
    /\ started' = jobs
    /\ alive' = 1..jobs
    /\ calls' = calls + jobs
    /\ proc_alive' = TRUE
    /\ fields' = FieldsColumns
    /\ field_names' = footprint
    /\ status' = [k \in 1..Len(FieldsColumns) |-> <<"PENDING">>]
    /\ run' = 1 /\ i' = 1
    /\ pc' = IF start_method = "fork" THEN "enter" ELSE "spawned"
    /\ mpc' = "poll"
    /\ UNCHANGED <<filetype, survey_format, columns, sn_limit, files, dirs, fault,
                   locals, history, exit_code, argv, tiles_file, footprint_file,
                   footprint, main_names, log, jobs, num_procs, b, tiles,
                   start_method, exitcodes, main_fault, procs>>

\* lines 232-241 in a worker whose module namespace has no name `fields`
WorkerSpawned ==
    /\ pc = "spawned"
    /\ dirs' = dirs \cup {ResultsDir}
    /\ fault' = "NameError"
    /\ pc' = "fault"
    /\ UNCHANGED <<config, files, run, i, locals, history, status, mainvars>>

\* the worker process ends: calculate_astdiff returned, or raised
WorkerExit ==
    /\ pc \in {"done", "fault"}
    /\ 1 \in alive
    /\ alive' = alive \ {1}
    /\ exitcodes' = Append(exitcodes, IF fault = "" THEN 0 ELSE 1)
    /\ UNCHANGED <<config, files, dirs, run, pc, i, fault, locals, history, status,
                   mpc, exit_code, argv, tiles_file, footprint_file, footprint,
                   main_names, log, jobs, started, calls, num_procs, b, tiles,
                   start_method, proc_alive, main_fault, procs>>

\* no process is ever seen alive
AnyAliveNever(a) == FALSE
\* any(proces.is_alive() for proces in jobs)                      (line 603)
AnyAlive(a) == a # {}

\* one pass of the loop of lines 602-608
MainPoll ==
    /\ mpc = "poll"
    /\ IF AnyAlive(alive)
       THEN UNCHANGED <<log, proc_alive, mpc>>
       ELSE /\ log' = Append(log, "All jobs finished")
            /\ proc_alive' = FALSE
            /\ mpc' = "done"
    /\ UNCHANGED <<config, files, dirs, run, pc, i, fault, locals, history, status,
                   exit_code, argv, tiles_file, footprint_file, footprint, main_names,
                   jobs, started, calls, num_procs, b, tiles, start_method, alive,
                   exitcodes, main_fault, procs>>

\* line 610
MainDone ==
    /\ mpc = "done"
    /\ log' = Append(log, "Done!")
    /\ mpc' = "plot"
    /\ UNCHANGED <<config, files, dirs, run, pc, i, fault, locals, history, status,
                   exit_code, argv, tiles_file, footprint_file, footprint, main_names,
                   fanout, procs>>

\* line 612: the name make_plot is not defined
MainPlot ==
    /\ mpc = "plot"
    /\ MainRaise("NameError")
    /\ UNCHANGED <<config, files, dirs, run, pc, i, fault, locals, history, status,
                   argv, tiles_file, footprint_file, footprint, main_names, log,
                   jobs, started, calls, num_procs, b, tiles, start_method, alive,
                   exitcodes, proc_alive, procs>>

\* ------------------------- calculate_astdiff run by concurrent processes
\* Two processes run calculate_astdiff on the same workdir and tile list, each
\* with its own object (its own optional columns) and its own locals; a step
\* is the code between two accesses to the file system.
Racers == {1, 2}

PStage(me, s) == [me.status EXCEPT ![me.i] = Append(@, s)]
PRaise(me, e) == [me EXCEPT !.fault = e, !.pc = "fault", !.status = PStage(me, "FAULT")]
PRaiseAfter(me, done, e) ==
    [me EXCEPT !.fault = e, !.pc = "fault",
               !.status = [me.status EXCEPT ![me.i] = @ \o done \o <<"FAULT">>]]
PTile(me) == fields[me.i]

\* the file is created only if it does not exist yet
to_csv_exclusive(fs, path, rows) ==
    IF fs[path].exists THEN fs ELSE [fs EXCEPT ![path] = File(rows)]
\* results.to_csv(path_to_results, index=False): mode 'w'         (line 346)
to_csv(fs, path, rows) == [fs EXCEPT ![path] = File(rows)]

\* lines 232-238: os.path.isdir(results_dir)
PIsDir(p) ==
    LET me == procs[p] IN
    /\ me.pc = "enter"
    /\ procs' = [procs EXCEPT ![p].pc = IF ResultsDir \in dirs THEN "loop" ELSE "mkdir"]
    /\ UNCHANGED <<config, files, dirs, run, pc, i, fault, locals, history, status,
                   mpc, exit_code, argv, tiles_file, footprint_file, footprint,
                   main_names, log, fanout>>

\* line 239: os.mkdir(results_dir)
PMkdir(p) ==
    LET me == procs[p] IN
    /\ me.pc = "mkdir"
    /\ IF ResultsDir \in dirs
       THEN /\ procs' = [procs EXCEPT ![p].fault = "FileExistsError", ![p].pc = "fault"]
            /\ UNCHANGED dirs
       ELSE /\ dirs' = dirs \cup {ResultsDir}
            /\ procs' = [procs EXCEPT ![p].pc = "loop"]
    /\ UNCHANGED <<config, files, run, pc, i, fault, locals, history, status,
                   mpc, exit_code, argv, tiles_file, footprint_file, footprint,
                   main_names, log, fanout>>

\* line 241, list exhausted; line 348
PLoopDone(p) ==
    LET me == procs[p] IN
    /\ me.pc = "loop" /\ me.i > Len(fields)
    /\ procs' = [procs EXCEPT ![p].pc = "done"]
    /\ UNCHANGED <<config, files, dirs, run, pc, i, fault, locals, history, status,
                   mpc, exit_code, argv, tiles_file, footprint_file, footprint,
                   main_names, log, fanout>>

\* lines 242-243
PFillerName(p) ==
    LET me == procs[p] IN
    /\ me.pc = "loop" /\ me.i <= Len(fields)
    /\ PTile(me) = Filler
    /\ procs' = [procs EXCEPT ![p] = [me EXCEPT !.status = PStage(me, "FILLER"),
                                                !.i = me.i + 1]]
    /\ UNCHANGED <<config, files, dirs, run, pc, i, fault, locals, history, status,
                   mpc, exit_code, argv, tiles_file, footprint_file, footprint,
                   main_names, log, fanout>>

\* lines 245-254: the existence check of line 247, then the footprint lookup
PCheck(p) ==
    LET me == procs[p] IN
    /\ me.pc = "loop" /\ me.i <= Len(fields)
    /\ PTile(me) # Filler
    /\ procs' = [procs EXCEPT ![p] =
                   IF ResultExists(PTile(me))
                   THEN [me EXCEPT !.status = PStage(me, "SKIPPED"), !.i = me.i + 1]
                   ELSE IF InFootprint(PTile(me))
                   THEN [me EXCEPT !.pc = "gaia"]
                   ELSE PRaise(me, "IndexError")]
    /\ UNCHANGED <<config, files, dirs, run, pc, i, fault, locals, history, status,
                   mpc, exit_code, argv, tiles_file, footprint_file, footprint,
                   main_names, log, fanout>>

\* lines 256-262
PGaia(p) ==
    LET me == procs[p] IN
    /\ me.pc = "gaia"
    /\ IF CacheExists(PTile(me))
       THEN /\ procs' = [procs EXCEPT ![p] =
                           [me EXCEPT !.gaia_data = files[gaia_cat_path(PTile(me))].rows,
                                      !.status = PStage(me, "CACHE"),
                                      !.pc = "load"]]
            /\ cache_reads' = Bump(cache_reads, PTile(me))
            /\ UNCHANGED <<dirs, queries>>
       ELSE /\ dirs' = dirs \cup {VizierCacheDir}
            /\ queries' = Bump(queries, PTile(me))
            /\ \E e \in {"QueryError", "NameError"} :
                  procs' = [procs EXCEPT ![p] = PRaiseAfter(me, <<"QUERY">>, e)]
            /\ UNCHANGED cache_reads
    /\ UNCHANGED <<config, files, run, pc, i, fault, locals, survey_reads, writes,
                   status, mpc, exit_code, argv, tiles_file, footprint_file, footprint,
                   main_names, log, fanout>>

\* lines 264-284
PLoad(p) ==
    LET me == procs[p] IN
    /\ me.pc = "load"
    /\ IF FiletypeSupported(filetype)
       THEN /\ survey_reads' = Bump(survey_reads, PTile(me))
            /\ procs' = [procs EXCEPT ![p] =
                  IF survey_format = filetype
                  THEN [me EXCEPT !.scat = files[survey_path(PTile(me))].rows,
                                  !.status = PStage(me, "SURVEY"),
                                  !.pc = "match"]
                  ELSE PRaiseAfter(me, <<"SURVEY">>,
                                   IF filetype = ".fits" THEN "OSError"
                                                         ELSE "UnicodeDecodeError")]
       ELSE /\ procs' = [procs EXCEPT ![p] = PRaise(me, "TypeError")]
            /\ UNCHANGED survey_reads
    /\ UNCHANGED <<config, files, dirs, run, pc, i, fault, locals, queries, cache_reads,
                   writes, status, mpc, exit_code, argv, tiles_file, footprint_file,
                   footprint, main_names, log, fanout>>

\* lines 286-343: match, quality filter, outlier trim, differences
PCompute(p) ==
    LET me == procs[p] IN
    /\ me.pc = "match"
    /\ IF me.gaia_data = <<>>
       THEN procs' = [procs EXCEPT ![p] = PRaise(me, "ValueError")]
       ELSE \E m \in [1..Len(me.scat) -> 1..Len(me.gaia_data)] :
              /\ \A q \in 1..Len(me.scat) : Nearest(me.scat[q], me.gaia_data, m[q])
              /\ LET keep == [q \in 1..Len(me.scat) |->
                                Selected(SeparationBelow5(me.scat[q], me.gaia_data[m[q]]),
                                         QualitySample(me.scat[q], me.columns, sn_limit))]
                     fs == Compress(me.scat, keep)
                     fg == Compress([q \in 1..Len(me.scat) |-> me.gaia_data[m[q]]], keep)
                     ab == [q \in 1..Len(fg) |-> Abspm(fg[q])]
                     valid == SelectSeq(ab, LAMBDA v : ~MaskedInvalid(v))
                     rows == [q \in 1..Len(fs) |-> ResultRow(fs[q], fg[q])]
                     staged == [me.status EXCEPT ![me.i] =
                                   @ \o <<"MATCHED", "FILTERED", "OUTLIER-TRIMMED">>]
                 IN  IF valid = <<>>
                     THEN \/ procs' = [procs EXCEPT ![p] =
                                 [me EXCEPT !.results = <<>>, !.status = staged,
                                            !.pc = "write"]]
                          \/ procs' = [procs EXCEPT ![p] =
                                 PRaiseAfter(me, <<"MATCHED", "FILTERED">>, "IndexError")]
                     ELSE procs' = [procs EXCEPT ![p] =
                                 [me EXCEPT !.results =
                                               Compress(rows, TrimMask(ab, Percentile95x100(valid))),
                                            !.status = staged,
                                            !.pc = "write"]]
    /\ UNCHANGED <<config, files, dirs, run, pc, i, fault, locals, history, status,
                   mpc, exit_code, argv, tiles_file, footprint_file, footprint,
                   main_names, log, fanout>>

\* lines 344-346
PWrite(p) ==
    LET me == procs[p] IN
    /\ me.pc = "write"
    /\ files' = to_csv(files, path_to_results(PTile(me)), me.results)
    /\ writes' = Bump(writes, PTile(me))
    /\ procs' = [procs EXCEPT ![p] = [me EXCEPT !.status = PStage(me, "WRITTEN"),
                                                !.i = me.i + 1,
                                                !.pc = "loop"]]
    /\ UNCHANGED <<config, dirs, run, pc, i, fault, locals, queries, cache_reads,
                   survey_reads, status, mpc, exit_code, argv, tiles_file,
                   footprint_file, footprint, main_names, log, fanout>>

\* ================================================================ inputs
\* survey entries: position and quality columns
GoodQ == [mag |-> 185, flags |-> 0, clstar |-> 96, fwhm |-> 6, sn |-> 110]
Qualities ==
    {GoodQ,
     [GoodQ EXCEPT !.flags = 1],
     [GoodQ EXCEPT !.mag = 140],
     [GoodQ EXCEPT !.mag = 190],
     [GoodQ EXCEPT !.mag = 141],
     [GoodQ EXCEPT !.clstar = 95],
     [GoodQ EXCEPT !.fwhm = 7],
     [GoodQ EXCEPT !.sn = 100]}
SurveyRow(ra, dec, q) ==
    [ra |-> ra, dec |-> dec, mag |-> q.mag, flags |-> q.flags, clstar |-> q.clstar,
     fwhm |-> q.fwhm, sn |-> q.sn]
GaiaRow(ra, dec, pmRA, pmDE) == [ra |-> ra, dec |-> dec, pmRA |-> pmRA, pmDE |-> pmDE]

\* survey (10.0000, 20.0000), (10.0000, 20.0020), (10.0015, 20.0020)
SurveyPositions == {<<Ra0, Dec0>>, <<Ra0, Dec0 + 20>>, <<Ra0 + 15, Dec0 + 20>>}
\* reference (10.0010, 20.0005), (10.0000, 20.0014)

SeqsUpTo(S, n) == UNION {[1..k -> S] : k \in 0..n}
\* catalogues of distinct entries
DistinctSeqsUpTo(S, n) ==
    {q \in SeqsUpTo(S, n) : \A j, k \in 1..Len(q) : j # k => q[j] # q[k]}

QualityRows == {SurveyRow(Ra0, Dec0, q) : q \in Qualities}
MatchRows == {SurveyRow(p[1], p[2], GoodQ) : p \in SurveyPositions}
             \cup {SurveyRow(Ra0 + 15, Dec0 + 20, [GoodQ EXCEPT !.mag = 190])}
MatchGaiaRows == {GaiaRow(Ra0 + 10, Dec0 + 5, 1, 0), GaiaRow(Ra0, Dec0 + 14, -3, 1),
                  GaiaRow(Ra0, Dec0 + 14, 0, 0)}
TrimGaiaRows == {GaiaRow(Ra0 + 10, Dec0 + 5, x, y) : x \in {NaN, -3, 1, 2}, y \in {NaN, 0, 1}}

SurveyA == <<SurveyRow(Ra0, Dec0, GoodQ), SurveyRow(Ra0, Dec0 + 20, [GoodQ EXCEPT !.flags = 1])>>
GaiaA == <<GaiaRow(Ra0 + 10, Dec0 + 5, 1, 0), GaiaRow(Ra0, Dec0 + 14, -3, 1)>>
OldResult == <<ResultRow(SurveyA[1], GaiaA[2])>>

\* directories that must exist for the files that exist
DirsOf(fs) ==
    (IF \E t \in Tiles : fs[path_to_results(t)].exists THEN {ResultsDir} ELSE {})
    \cup (IF \E t \in Tiles : fs[gaia_cat_path(t)].exists THEN {GaiaDir} ELSE {})

\* nothing of the code after line 569 has run
FanIdle ==
    /\ jobs = 0 /\ started = 0 /\ calls = 0
    /\ num_procs = 0 /\ b = <<>> /\ tiles = <<>>
    /\ start_method = "fork" /\ alive = {} /\ exitcodes = <<>>
    /\ proc_alive = FALSE /\ main_fault = ""

MainIdle ==
    /\ mpc = "idle" /\ exit_code = -1 /\ argv = "ok"
    /\ tiles_file = NoFile /\ footprint_file = NoFile
    /\ footprint = <<>> /\ main_names = <<>> /\ log = <<>>
    /\ FanIdle /\ procs = <<>>

NoHistory ==
    /\ queries = [t \in Tiles |-> 0]
    /\ cache_reads = [t \in Tiles |-> 0]
    /\ survey_reads = [t \in Tiles |-> 0]
    /\ writes = [t \in Tiles |-> 0]

NoLocals ==
    /\ gaia_data = <<>> /\ scat = <<>> /\ idx = <<>> /\ separation = <<>>
    /\ sample = <<>> /\ finalscat = <<>> /\ finalgaia = <<>> /\ mask = <<>>

\* ---------------------------------------------------------- specification
\* calculate_astdiff invoked (repeatedly) on a tile list in a workdir
Init ==
    /\ filetype \in {".fits", ".csv", ".txt"}
    /\ survey_format \in {".fits", ".csv"}
    /\ columns \in {{}, {"flags"}}
    /\ sn_limit = 100
    /\ fields \in SeqsUpTo(Tiles \cup {Filler}, MaxTiles) \ {<<>>}
    /\ field_names \in {<<"t1", "t2">>, <<"t1">>}
    /\ \E res \in [Tiles -> {NoFile, File(OldResult)}],
          cache \in [Tiles -> {NoFile, File(GaiaA), File(<<>>)}] :
          files = [p \in Paths |->
                     IF \E t \in Tiles : p = path_to_results(t)
                     THEN res[CHOOSE t \in Tiles : p = path_to_results(t)]
                     ELSE IF \E t \in Tiles : p = gaia_cat_path(t)
                     THEN cache[CHOOSE t \in Tiles : p = gaia_cat_path(t)]
                     ELSE IF \E t \in Tiles : p = survey_path(t)
                     THEN File(SurveyA)
                     ELSE NoFile]
    /\ dirs = DirsOf(files)
    /\ run = 1 /\ pc = "enter" /\ i = 1 /\ fault = ""
    /\ NoLocals /\ NoHistory
    /\ status = [k \in 1..Len(fields) |-> <<"PENDING">>]
    /\ MainIdle

Next ==
    \/ Enter \/ LoopDone \/ FillerName \/ SkipExisting \/ Resolve
    \/ ReadCache \/ get_gaia \/ Load \/ Match \/ Filter \/ Trim \/ Write
    \/ Rerun

Spec == Init /\ [][Next]_vars


\* ------------------------------------------------------ the pipeline stages
\* one tile whose reference cache and survey catalogue have just been read
\* (position: line 286), the catalogues and the configuration drawn from
\* bounded sets
PipeFiles(g, sc) ==
    [p \in Paths |-> IF p = gaia_cat_path("t1") THEN File(g)
                     ELSE IF p = survey_path("t1") THEN File(sc)
                     ELSE NoFile]

InitPipe ==
    /\ filetype = ".fits" /\ survey_format = ".fits"
    /\ sn_limit = 100
    /\ fields = <<"t1">> /\ field_names = <<"t1">>
    /\ \/ /\ scat \in SeqsUpTo(QualityRows, MaxQRows) \ {<<>>}
          /\ columns \in SUBSET OptionalColumns
          /\ gaia_data = GaiaA
       \/ /\ scat \in SeqsUpTo(MatchRows, MaxRows) \ {<<>>}
          /\ columns \in {{}, OptionalColumns}
          /\ gaia_data \in DistinctSeqsUpTo(MatchGaiaRows, MaxGaia)
    /\ files = PipeFiles(gaia_data, scat)
    /\ dirs = {ResultsDir, GaiaDir}
    /\ run = 1 /\ pc = "match" /\ i = 1 /\ fault = ""
    /\ idx = <<>> /\ separation = <<>> /\ sample = <<>>
    /\ finalscat = <<>> /\ finalgaia = <<>> /\ mask = <<>>
    /\ queries = [t \in Tiles |-> 0]
    /\ cache_reads = [t \in Tiles |-> IF t = "t1" THEN 1 ELSE 0]
    /\ survey_reads = [t \in Tiles |-> IF t = "t1" THEN 1 ELSE 0]
    /\ writes = [t \in Tiles |-> 0]
    /\ status = <<(<<"PENDING", "CACHE", "SURVEY">>)>>
    /\ MainIdle

NextPipe == Match \/ Filter \/ Trim \/ Write \/ LoopDone

SpecPipe == InitPipe /\ [][NextPipe]_vars

\* the pairs that passed matching and the quality filter (position: line 324)
TrimSurveyRow == SurveyRow(Ra0, Dec0, GoodQ)

InitTrim ==
    /\ filetype = ".fits" /\ survey_format = ".fits"
    /\ columns = {} /\ sn_limit = 100
    /\ fields = <<"t1">> /\ field_names = <<"t1">>
    /\ \/ finalgaia \in SeqsUpTo(TrimGaiaRows, MaxPairs)
       \/ finalgaia = [p \in 1..100 |-> GaiaRow(Ra0 + 10, Dec0 + 5, (-1) * p, 0)]
    /\ finalscat = [p \in 1..Len(finalgaia) |-> TrimSurveyRow]
    /\ gaia_data = finalgaia
    /\ scat = finalscat
    /\ idx = [p \in 1..Len(scat) |-> p]
    /\ separation = [p \in 1..Len(scat) |-> TRUE]
    /\ sample = [p \in 1..Len(scat) |-> TRUE]
    /\ mask = <<>>
    /\ files = PipeFiles(gaia_data, scat)
    /\ dirs = {ResultsDir, GaiaDir}
    /\ run = 1 /\ pc = "trim" /\ i = 1 /\ fault = ""
    /\ queries = [t \in Tiles |-> 0]
    /\ cache_reads = [t \in Tiles |-> IF t = "t1" THEN 1 ELSE 0]
    /\ survey_reads = [t \in Tiles |-> IF t = "t1" THEN 1 ELSE 0]
    /\ writes = [t \in Tiles |-> 0]
    /\ status = <<(<<"PENDING", "CACHE", "SURVEY", "MATCHED", "FILTERED">>)>>
    /\ MainIdle

NextTrim == Trim \/ Write \/ LoopDone

SpecTrim == InitTrim /\ [][NextTrim]_vars


\* --------------------------------------------------------- main program
FootprintNames == {<<"S", "_", "1">>, <<"S", "-", "1">>, <<"H", "_", "_", "2">>}

\* the workdir the main program starts in
MainFiles ==
    [p \in Paths |-> IF p = path_to_results("t1") THEN File(OldResult)
                     ELSE IF p = survey_path("t1") \/ p = survey_path("t2") THEN File(SurveyA)
                     ELSE NoFile]

InitMain ==
    /\ argv \in {"none", "bad", "ok"}
    /\ tiles_file \in {NoFile} \cup {File(r) : r \in SeqsUpTo(Tiles, MaxTiles)}
    /\ footprint_file \in {NoFile} \cup {File(r) : r \in SeqsUpTo(FootprintNames, MaxNames)}
    /\ mpc = "start" /\ exit_code = -1
    /\ footprint = <<>> /\ main_names = <<>> /\ log = <<>>
    /\ FanIdle /\ procs = <<>>
    /\ filetype = ".fits" /\ survey_format = ".fits"
    /\ columns = {} /\ sn_limit = 100
    /\ fields = <<>> /\ field_names = <<>>
    /\ files = MainFiles
    /\ dirs = DirsOf(files)
    /\ run = 0 /\ pc = "idle" /\ i = 1 /\ fault = ""
    /\ NoLocals /\ NoHistory
    /\ status = <<>>

NextMain == MainParse \/ MainReadTiles \/ get_footprint \/ MainFieldNames \/ MainExit

SpecMain == InitMain /\ [][NextMain]_vars

\* ------------------------------------------------ the code after line 569
\* the main program as it would continue at line 571 (position: after 567),
\* the value of num_procs and the start method of the platform taken as inputs
FanFootprint == <<(<<"t", "1">>), (<<"t", "2">>)>>

FanFiles(existing) ==
    [p \in Paths |-> IF p = path_to_results(FieldsColumns[1]) /\ existing
                     THEN File(OldResult)
                     ELSE MainFiles[p]]

InitFan ==
    /\ argv = "ok"
    /\ fields \in SeqsUpTo(Tiles, MaxTiles + 1) \ {<<>>}
    /\ tiles_file = File(fields)
    /\ footprint_file = File(FanFootprint)
    /\ footprint = FanFootprint
    /\ main_names = get_fields_names(footprint)
    /\ field_names = <<>>
    /\ mpc = "fanout" /\ exit_code = -1 /\ log = <<>>
    /\ jobs = 0 /\ started = 0 /\ calls = 0
    /\ num_procs \in (1..MaxProcs) \cup {8}
    /\ b = <<>> /\ tiles = <<>>
    /\ start_method \in {"fork", "spawn"}
    /\ alive = {} /\ exitcodes = <<>>
    /\ proc_alive = FALSE /\ main_fault = ""
    /\ procs = <<>>
    /\ filetype = ".fits" /\ survey_format = ".fits"
    /\ columns = {} /\ sn_limit = 100
    /\ \E existing \in BOOLEAN : files = FanFiles(existing)
    /\ dirs = DirsOf(files)
    /\ run = 0 /\ pc = "idle" /\ i = 1 /\ fault = ""
    /\ NoLocals /\ NoHistory
    /\ status = [k \in 1..Len(fields) |-> <<"PENDING">>]

NextFan ==
    \/ MainChunk \/ MainCreate \/ MainStart \/ MainPoll \/ MainDone \/ MainPlot
    \/ Enter \/ SkipExisting \/ Resolve \/ LoopDone \/ WorkerSpawned \/ WorkerExit

SpecFan == InitFan /\ [][NextFan]_vars

\* the parent is scheduled; nothing is assumed of the workers
SpecFanLive == SpecFan /\ WF_vars(MainPoll) /\ WF_vars(MainDone)

\* ------------------------------------------------- concurrent invocations
RaceFiles(res, cache) ==
    [p \in Paths |-> IF p = path_to_results("t1") THEN res
                     ELSE IF p = gaia_cat_path("t1") \/ p = gaia_cat_path("t2") THEN cache
                     ELSE IF p = survey_path("t1") \/ p = survey_path("t2") THEN File(SurveyA)
                     ELSE NoFile]

InitRace ==
    /\ filetype = ".fits" /\ survey_format = ".fits"
    /\ columns = {} /\ sn_limit = 100
    /\ fields \in SeqsUpTo(Tiles \cup {Filler}, MaxTiles) \ {<<>>}
    /\ field_names \in {<<"t1", "t2">>, <<"t1">>}
    /\ \E res \in {NoFile, File(OldResult)}, cache \in {NoFile, File(GaiaA)} :
          files = RaceFiles(res, cache)
    /\ dirs = DirsOf(files)
    /\ \E cols \in [Racers -> {{}, {"flags"}}] :
          procs = [p \in Racers |->
                     [pc |-> "enter", i |-> 1, fault |-> "", columns |-> cols[p],
                      gaia_data |-> <<>>, scat |-> <<>>, results |-> <<>>,
                      status |-> [k \in 1..Len(fields) |-> <<"PENDING">>]]]
    /\ run = 0 /\ pc = "idle" /\ i = 1 /\ fault = ""
    /\ NoLocals /\ NoHistory
    /\ status = <<>>
    /\ mpc = "idle" /\ exit_code = -1 /\ argv = "ok"
    /\ tiles_file = NoFile /\ footprint_file = NoFile
    /\ footprint = <<>> /\ main_names = <<>> /\ log = <<>>
    /\ FanIdle

NextRace ==
    \E p \in Racers :
       \/ PIsDir(p) \/ PMkdir(p) \/ PLoopDone(p) \/ PFillerName(p) \/ PCheck(p)
       \/ PGaia(p) \/ PLoad(p) \/ PCompute(p) \/ PWrite(p)

SpecRace == InitRace /\ [][NextRace]_vars

\* ================================================================= claims
ResultRows(t) == files[path_to_results(t)].rows
Filtered == pc \in {"trim", "write"}
Written(t) == files[path_to_results(t)].exists

\* the quality selection as the claim states it
PassesQuality(r) ==
    /\ r.mag > 140
    /\ r.mag < 190
    /\ ("flags" \in columns => r.flags = 0)
    /\ ("clstar" \in columns => r.clstar > 95)
    /\ ("fwhm" \in columns => r.fwhm * 3600 < 25000)
    /\ ("sn" \in columns => r.sn > sn_limit)

\* C4: once the quality filter has run, a survey row is in the sample if and
\* only if its magnitude is strictly between 14 and 19 and every configured
\* optional column passes its test; an unconfigured column excludes nothing,
\* so with no optional column configured a row with magnitude 18.5 and
\* flags = 1 passes.
C4_QualityFilter ==
    Filtered =>
        /\ Len(sample) = Len(scat)
        /\ \A p \in 1..Len(scat) : sample[p] <=> PassesQuality(scat[p])
        /\ \A p \in 1..Len(scat) :
              (columns = {} /\ scat[p].mag = 185 /\ scat[p].flags = 1) => sample[p]

C4_Witness ==
    /\ Filtered
    /\ columns = {}
    /\ \E p \in 1..Len(scat) : scat[p].mag = 185 /\ scat[p].flags = 1 /\ sample[p]
    /\ \E p \in 1..Len(scat) : ~sample[p]

\* separation of a survey entry from a reference entry is below 5 arcsec
\* (0.0036 arcsec)^2 * SepSq < 25 arcsec^2, both sides times 1e8 / 16
Below5(s, g) == 81 * SepSq(s, g) < 156250000
\* no reference entry is strictly closer to s than g
IsNearestRef(s, g) == \A j \in 1..Len(gaia_data) : SepSq(s, g) <= SepSq(s, gaia_data[j])
SamePos(r, s) == r.RA = s.ra /\ r.DEC = s.dec
SameRef(r, g) == r.RAJ2000 = g.ra /\ r.DEJ2000 = g.dec

\* C5: in a written result table, no row belongs to a survey entry whose
\* nearest reference entry is 5 arcsec or more away, whatever its magnitude
\* and whatever optional columns are configured; every row pairs a survey
\* entry with its nearest reference entry at a separation below 5 arcsec.
C5_MatchTolerance ==
    Written("t1") =>
        /\ \A p \in 1..Len(scat) :
              (\A j \in 1..Len(gaia_data) : ~Below5(scat[p], gaia_data[j]))
              => \A q \in 1..Len(ResultRows("t1")) : ~SamePos(ResultRows("t1")[q], scat[p])
        /\ \A q \in 1..Len(ResultRows("t1")) :
              \E p \in 1..Len(scat), j \in 1..Len(gaia_data) :
                 /\ SamePos(ResultRows("t1")[q], scat[p])
                 /\ SameRef(ResultRows("t1")[q], gaia_data[j])
                 /\ IsNearestRef(scat[p], gaia_data[j])
                 /\ Below5(scat[p], gaia_data[j])

\* a survey entry that passes the quality filter but is 5 arcsec or more from
\* every reference entry, next to one that is written
C5_Witness ==
    /\ Written("t1")
    /\ Len(ResultRows("t1")) > 0
    /\ \E p \in 1..Len(scat) :
          /\ sample[p]
          /\ \A j \in 1..Len(gaia_data) : ~Below5(scat[p], gaia_data[j])

\* C7: every row of a written result table has dediff = 3600 * (DEC - DEJ2000)
\* and radiff = 3600 * (RA - RAJ2000) * cos(DEJ2000), the cosine taken of the
\* reference declination; survey (10.0, 20.0) against reference
\* (10.001, 20.0005) gives dediff = -1.8 arcsec.
C7_Differences ==
    Written("t1") =>
        \A q \in 1..Len(ResultRows("t1")) :
           LET r == ResultRows("t1")[q] IN
           /\ r.dediff = 3600 * (r.DEC - r.DEJ2000) * 10000
           \* 3600 arcsec/deg * 1e-4 deg * 1e8 / 1e6 = 36
           /\ r.radiff = (3600 \div 100) * (r.RA - r.RAJ2000) * CosE6(r.DEJ2000)
           /\ (r.RA = 100000 /\ r.DEC = 200000 /\ r.RAJ2000 = 100010 /\ r.DEJ2000 = 200005)
              => (r.dediff = -180000000 /\ r.radiff = -338288400)

C7_Witness ==
    /\ Written("t1")
    /\ \E q \in 1..Len(ResultRows("t1")) :
          LET r == ResultRows("t1")[q] IN
          /\ r.RA = 100000 /\ r.DEC = 200000 /\ r.RAJ2000 = 100010 /\ r.DEJ2000 = 200005
          /\ r.dediff = -180000000

\* summed absolute proper motion of pair p, and its validity
PairAbspm(p) ==
    IF finalgaia[p].pmRA = NaN \/ finalgaia[p].pmDE = NaN THEN NaN
    ELSE absv(finalgaia[p].pmRA) + absv(finalgaia[p].pmDE)
ValidPair(p) == PairAbspm(p) # NaN
ValidPairs == {p \in 1..Len(finalgaia) : ValidPair(p)}
\* number of valid pairs whose value does not exceed that of pair p
RankOf(p) == Cardinality({q \in ValidPairs : PairAbspm(q) <= PairAbspm(p)})
\* pair p is valid and strictly below the 95th percentile (linear
\* interpolation between order statistics) of the valid values:
\* 100 * (rank - 1) < 95 * (n - 1)
BelowP95(p) == ValidPair(p) /\ 100 * (RankOf(p) - 1) < 95 * (Cardinality(ValidPairs) - 1)
Trimmed == pc = "write"
KeptPairs == {p \in 1..Len(mask) : mask[p]}

\* C6: once the outlier trim has run, the pairs kept are exactly the valid
\* ones strictly below the 95th percentile of the valid values; an invalid
\* entry is never kept and does not count for the percentile; for the sums
\* 1..100 exactly the 95 smallest are kept.
C6_OutlierTrim ==
    Trimmed =>
        /\ Len(mask) = Len(finalgaia)
        /\ \A p \in 1..Len(finalgaia) : mask[p] <=> BelowP95(p)
        /\ (Len(finalgaia) = 100 /\ ValidPairs = 1..100)
           => KeptPairs = {p \in 1..100 : PairAbspm(p) <= 95}

C6_Witness ==
    /\ Trimmed
    /\ Len(finalgaia) = 100
    /\ Cardinality(KeptPairs) = 95


\* C1: when the loop reaches a tile whose result file exists, that pass over
\* the tile is a single step that leaves every file unchanged, issues no
\* remote query, reads neither the reference cache nor the survey catalogue,
\* and moves on to the next list entry; in every run.
C1_SkipIfExists ==
    [][(pc = "loop" /\ i <= Len(fields) /\ fields[i] # Filler
          /\ files[path_to_results(fields[i])].exists)
       => /\ files' = files
          /\ queries' = queries
          /\ cache_reads' = cache_reads
          /\ survey_reads' = survey_reads
          /\ writes' = writes
          /\ pc' = "loop"
          /\ i' = i + 1]_vars

\* a tile written in the first run and skipped in the second
C1_Witness ==
    /\ run = 2
    /\ \E k \in 1..Len(fields) :
          /\ k < i
          /\ status[k] = <<"PENDING", "SKIPPED">>
          /\ writes[fields[k]] = 1

\* C2 (as claimed): a tile that has been fetched from the remote service is
\* cached, so no tile is ever queried a second time with the same release
\* and workdir.
C2_CacheReuse == \A t \in Tiles : queries[t] <= 1

\* C3 (as claimed): when the type error for an unsupported filetype is raised,
\* the tile's reference cache has not been read, the survey catalogue has not
\* been read, no query has been issued and nothing has been written.
C3_NoReadBeforeTypeError ==
    fault = "TypeError" =>
        \A m \in 1..Len(status[i]) :
           status[i][m] \notin {"CACHE", "SURVEY", "QUERY", "WRITTEN"}

\* C3 (amended): with an unsupported filetype the type error is raised after
\* the reference catalogue has been read from the cache and before the survey
\* catalogue is read: no survey read is ever attempted, no query precedes the
\* type error, and no result file is ever written.
C3_TypeErrorAfterCacheRead ==
    /\ fault = "TypeError" =>
          /\ filetype \notin {".fits", ".csv"}
          /\ status[i] = <<"PENDING", "CACHE", "FAULT">>
          /\ ~files[path_to_results(fields[i])].exists
    /\ filetype \notin {".fits", ".csv"} =>
          /\ pc \notin {"match", "filter", "trim", "write"}
          /\ \A t \in Tiles : survey_reads[t] = 0 /\ writes[t] = 0
          /\ \A p \in Paths : files[p].exists => p \notin {get_gaia_cat_path(t) : t \in Tiles}

C3_Witness ==
    /\ fault = "TypeError"
    /\ filetype = ".txt"
    /\ cache_reads[fields[i]] > 0

\* the stages of the per-tile state machine, without the I/O markers
Core(st) == SelectSeq(st, LAMBDA x : x \notin {"QUERY", "SURVEY"})
WrittenPath == <<"PENDING", "CACHE", "MATCHED", "FILTERED", "OUTLIER-TRIMMED", "WRITTEN">>
SkippedPath == <<"PENDING", "SKIPPED">>
IsPrefix(s, t) == Len(s) <= Len(t) /\ s = SubSeq(t, 1, Len(s))
Last(s) == s[Len(s)]
LegalPath(c) ==
    \/ IsPrefix(c, WrittenPath)
    \/ c = SkippedPath
    \/ /\ Last(c) = "FAULT"
       /\ IsPrefix(SubSeq(c, 1, Len(c) - 1), SubSeq(WrittenPath, 1, 5))

C9_Stages ==
    /\ \A k \in 1..Len(fields) :
          fields[k] # Filler =>
             LET c == Core(status[k]) IN
             /\ Len(c) >= 1 /\ c[1] = "PENDING"
             /\ LegalPath(c)
             /\ (k < i => Last(c) \in {"WRITTEN", "SKIPPED"})
             /\ (k > i => c = <<"PENDING">>)
             /\ ((k = i /\ pc = "fault") => Last(c) = "FAULT")
             /\ (Last(c) = "SKIPPED" => files[path_to_results(fields[k])].exists)
             /\ (Last(c) = "WRITTEN" => files[path_to_results(fields[k])].exists)
    /\ \A t \in Tiles : writes[t] <= 1

C9_Step ==
    /\ \A t \in Tiles :
          files[path_to_results(t)].exists
          => files'[path_to_results(t)] = files[path_to_results(t)]
    /\ (pc = "loop" /\ i <= Len(fields) /\ fields[i] # Filler)
       => IF files[path_to_results(fields[i])].exists
          THEN status'[i] = SkippedPath
          ELSE "SKIPPED" \notin {status'[i][m] : m \in 1..Len(status'[i])}
    /\ files' # files
       => /\ Core(status[i]) = SubSeq(WrittenPath, 1, 5)
          /\ Core(status'[i]) = WrittenPath
          /\ \A p \in Paths : p # path_to_results(fields[i]) => files'[p] = files[p]

\* C9: within one invocation every tile starts PENDING; once the loop has
\* left it, it is WRITTEN or SKIPPED, or the invocation ended on its fault; it
\* is SKIPPED exactly when its result file exists at the existence check, and
\* then passes through no other stage; a result file is written at most once,
\* only after cache check, match, quality filter and outlier trim in that
\* order, and an existing result file is never overwritten.
C9_StateMachine == []C9_Stages /\ [][C9_Step]_vars

\* a completed run that has written one tile and skipped another
C9_Witness ==
    /\ pc = "done"
    /\ \E k, m \in 1..Len(fields) :
          /\ Core(status[k]) = WrittenPath
          /\ status[m] = SkippedPath

MainStages == {"start", "tiles", "footprint", "names", "exit", "exited"}

C10_FanOutUnreachable ==
    /\ mpc \in MainStages
    /\ jobs = 0 /\ started = 0 /\ calls = 0
    /\ pc = "idle" /\ run = 0
    /\ files = MainFiles
    /\ \A t \in Tiles : queries[t] = 0 /\ writes[t] = 0
    /\ (mpc = "exited" /\ exit_code = 0) => Len(main_names) = Len(footprint_file.rows)

\* the run that loads the footprint and ends at line 569
C10_Witness ==
    /\ mpc = "exited"
    /\ exit_code = 0
    /\ Len(fields) > 0
    /\ main_names # <<>>

\* ------------------------------------------------------------- the fan-out
Count(l, x) == Cardinality({k \in 1..Len(l) : l[k] = x})
RECURSIVE Flat(_)
Flat(rows) == IF rows = <<>> THEN <<>> ELSE Head(rows) \o Flat(Tail(rows))
InLog(m) == \E k \in 1..Len(log) : log[k] = m
\* the tile list the main program read
Listed == tiles_file.rows

\* C11 (as claimed): once the chunking code has run, for any tile list and any
\* num_procs >= 1 there are exactly num_procs chunks of equal size; every
\* listed tile is in the chunks as often as in the list, nothing but filler is
\* added, fewer than num_procs fillers are added; and a filler entry reached
\* by the loop leaves only its FILLER mark.
C11_StaticChunking ==
    /\ (mpc # "fanout" /\ num_procs >= 1) =>
          /\ main_fault # "ValueError"
          /\ Len(tiles) = num_procs
          /\ \A r, q \in 1..Len(tiles) : Len(tiles[r]) = Len(tiles[q])
          /\ \A t \in Tiles : Count(Flat(tiles), t) = Count(Listed, t)
          /\ \A k \in 1..Len(Flat(tiles)) : Flat(tiles)[k] \in Tiles \cup {Filler}
          /\ Count(Flat(tiles), Filler) < num_procs
    /\ \A k \in 1..Len(fields) :
          (fields[k] = Filler /\ k < i) => status[k] = <<"PENDING", "FILLER">>

\* the list entries the loop of the worker has reached
Visited == {fields[k] : k \in {m \in 1..Len(fields) : status[m] # <<"PENDING">>}}
WorkerEnded == started > 0 /\ pc \in {"done", "fault"}
ChunkTiles(r) == {tiles[r][k] : k \in 1..Len(tiles[r])} \ {Filler}

C13_Reported ==
    /\ (InLog("All jobs finished") \/ InLog("Done!")) =>
          /\ alive = {}
          /\ started = jobs /\ Len(exitcodes) = started
          /\ ~proc_alive
    /\ (mpc = "exited" /\ started > 0) =>
          /\ log = <<"All jobs finished", "Done!">>
          /\ exit_code = 1 /\ main_fault = "NameError"
    /\ InLog("Done!") => InLog("All jobs finished")

C13_Polling ==
    /\ (mpc = "poll" /\ alive # {}) =>
          (mpc' = "poll" /\ log' = log /\ proc_alive' /\ exit_code' = -1)
    /\ alive' # alive =>
          /\ (started' # started \/ (pc \in {"done", "fault"} /\ mpc' = mpc))
          /\ log' = log

WrittenMarks(p, t) ==
    Cardinality({k \in 1..Len(fields) :
                   fields[k] = t /\ \E m \in 1..Len(procs[p].status[k]) :
                                       procs[p].status[k][m] = "WRITTEN"})
\* process p is between its existence check of a tile and the write
Computing(p) == procs[p].pc \in {"gaia", "load", "match", "write"}

C14_Writes ==
    \A t \in Tiles :
       /\ writes[t] = WrittenMarks(1, t) + WrittenMarks(2, t)
       /\ writes[t] <= Cardinality(Racers)

C14_Step ==
    \A p \in Racers :
       /\ (procs[p].pc = "loop" /\ Computing(p)')
          => ~files[path_to_results(fields[procs[p].i])].exists
       /\ (procs[p].pc = "write" /\ procs'[p] # procs[p])
          => /\ files'[path_to_results(fields[procs[p].i])] = File(procs[p].results)
             /\ writes'[fields[procs[p].i]] = writes[fields[procs[p].i]] + 1
             /\ procs'[p].pc = "loop"
             /\ procs'[p].fault = ""
       /\ procs'[p] # procs[p] => \A q \in Racers \ {p} : procs'[q] = procs[q]

\* C14: a process starts computing a tile only when the existence check found
\* no result file, but the check and the write are separate steps with no
\* lock between them: a step of one process never depends on or changes the
\* position of the other, and a process that has passed the check writes its
\* table whatever the file has become in the meantime, replacing what is
\* there; a tile is written once for every process that passed its check.
C14_RacyCheck == []C14_Writes /\ [][C14_Step]_vars

\* both processes passed the existence check of t1 before either wrote, both
\* computed and wrote it, and the table written first has been replaced by a
\* different one
C14_Witness ==
    /\ fields = <<"t1">>
    /\ writes["t1"] = 2
    /\ \A p \in Racers : procs[p].status[1][Len(procs[p].status[1])] = "WRITTEN"
    /\ procs[1].results # procs[2].results
    /\ files[path_to_results("t1")].rows = procs[2].results

\* ------------------------------------------------------------------ faults
NoRepeat(st) == \A j, k \in 1..Len(st) : j # k => st[j] # st[k]

C15_Faulted ==
    /\ fault # "" <=> pc = "fault"
    /\ pc = "fault" =>
          /\ i <= Len(fields) /\ fields[i] # Filler
          /\ ~files[path_to_results(fields[i])].exists
          /\ status[i][Len(status[i])] = "FAULT"
          /\ NoRepeat(status[i])
          /\ \A m \in 1..Len(status[i]) : status[i][m] # "WRITTEN"
          /\ \A k \in 1..Len(fields) : k > i => status[k] = <<"PENDING">>

C15_Step ==
    /\ pc' = "fault" => files' = files
    /\ pc = "fault" =>
          /\ run' = run + 1
          /\ files' = files
          /\ queries' = queries /\ cache_reads' = cache_reads
          /\ survey_reads' = survey_reads /\ writes' = writes

\* C15: a fault raised while a tile is processed ends the invocation: the
\* tile's result file does not exist, the entries after it are still PENDING,
\* no stage of the tile has been gone through twice, the faulting step and
\* everything after it leave every file as it was, and nothing more is queried,
\* read or written until calculate_astdiff is invoked anew.
C15_NoFaultIsolation == []C15_Faulted /\ [][C15_Step]_vars

\* the remote query of the second tile failed after the first tile was written
C15_Witness ==
    /\ pc = "fault" /\ fault = "QueryError"
    /\ i = 2
    /\ Core(status[1]) = WrittenPath
    /\ files[path_to_results(fields[1])].exists

====
